---- MODULE Spec2Model ----
(***************************************************************************)
(* Model of the A2A command-line client, client/client.py:                 *)
(*   build_message, handle_message (submit-and-drain), interactive_loop    *)
(*   and run_main.                                                         *)
(*                                                                         *)
(* The coroutine call chain run_main -> interactive_loop -> handle_message *)
(* -> handle_message -> ... is a call stack: `pc' is the position of       *)
(* run_main/interactive_loop and `stack' holds one frame per active        *)
(* handle_message call, innermost last.  The agent (client.send_message)   *)
(* and the operator (input) are the environment: what the stream yields    *)
(* or raises and what the operator types are chosen nondeterministically.  *)
(* Text is a sequence of one-character strings so that str.strip and       *)
(* str.lower are computed, not assumed.  The message id (uuid4) and the    *)
(* rendered JSON are not modelled.                                         *)
(***************************************************************************)
EXTENDS Integers, Sequences, FiniteSets, TLC

VARIABLES pc, line, query, stack, nqueries, invoked, conv, console

vars == <<pc, line, query, stack, nqueries, invoked, conv, console>>

----------------------------------------------------------------------------
(* Bounds of the exploration *)

\* top-level lines read by interactive_loop before only exit keywords are typed
MaxQueries == 2
\* items the agent yields at most, over all response sequences, for one
\* top-level query
MaxItems == 3
\* input-required items the agent yields at most for one top-level query
MaxTurns == 2

----------------------------------------------------------------------------
(* Text: str.strip, str.lower, the exit keywords *)

Whitespace == {" ", "\t"}

LowerChar(c) ==
    CASE c = "E" -> "e"
      [] c = "X" -> "x"
      [] c = "I" -> "i"
      [] c = "T" -> "t"
      [] c = "Q" -> "q"
      [] c = "U" -> "u"
      [] OTHER -> c

\* str.lower
Lower(s) == [i \in 1..Len(s) |-> LowerChar(s[i])]

RECURSIVE LStrip(_)
LStrip(s) ==
    IF s # <<>> /\ Head(s) \in Whitespace THEN LStrip(Tail(s)) ELSE s

RECURSIVE RStrip(_)
RStrip(s) ==
    IF s # <<>> /\ s[Len(s)] \in Whitespace
    THEN RStrip(SubSeq(s, 1, Len(s) - 1))
    ELSE s

\* str.strip
Strip(s) == RStrip(LStrip(s))

ExitKeywords == { <<"e","x","i","t">>, <<"q","u","i","t">> }

\* variant: an empty query also leaves the loop
IsExitOrEmpty(q) == q = <<>> \/ Lower(q) \in ExitKeywords

\* variant: the comparison is case-sensitive
IsExitCaseSensitive(q) == q \in ExitKeywords

\* the test of interactive_loop: query.lower() in {"exit", "quit"}
IsExit(q) == Lower(q) \in ExitKeywords

\* lines the operator types at the top-level prompt
QueryLines ==
    { <<>>,
      <<" ","h","i"," ">>,
      <<"e","x","i","t">>,
      <<"E","X","I","T">>,
      <<" ","Q","u","i","t"," ">> }

\* lines the operator types at the follow-up prompt
FollowUpLines ==
    { <<"o","k">>,
      <<" ","e","x","i","t">> }

----------------------------------------------------------------------------
(* Optional identifiers, messages, response items, errors *)

None == <<>>
Some(s) == <<s>>

\* Python truthiness of a str | None value
Truthy(x) == x # None /\ x # Some("")

\* variant: a message without context id is given a context id of its own
BuildMessageFreshContext(text, task_id, context_id) ==
    [text      |-> text,
     taskId    |-> IF Truthy(task_id) THEN task_id ELSE None,
     contextId |-> IF Truthy(context_id) THEN context_id ELSE Some("new")]

\* variant: the text is trimmed before it is sent
BuildMessageTrimmed(text, task_id, context_id) ==
    [text      |-> Strip(text),
     taskId    |-> IF Truthy(task_id) THEN task_id ELSE None,
     contextId |-> IF Truthy(context_id) THEN context_id ELSE None]

\* build_message: taskId = task_id if task_id else None, likewise contextId
build_message(text, task_id, context_id) ==
    [text      |-> text,
     taskId    |-> IF Truthy(task_id) THEN task_id ELSE None,
     contextId |-> IF Truthy(context_id) THEN context_id ELSE None]

\* the (task id, context id) pairs the agent uses
TaskPairs == { <<"t1", "c1">>, <<"", "c2">> }
TaskStates == {"input-required", "completed"}

\* variant: the state is compared with the name of the enum member
InputRequiredByName == "input_required"

\* TaskState.input_required
input_required == "input-required"

\* a (Task, Update) tuple, reduced to what handle_message reads of the task
TupleItems ==
    { [kind |-> "tuple", state |-> st, id |-> p[1], context_id |-> p[2]] :
        st \in TaskStates, p \in TaskPairs }

\* a standalone Message reply
MessageItem == [kind |-> "message", state |-> "", id |-> "", context_id |-> ""]

Items == TupleItems \cup {MessageItem}

NoItem == [kind |-> "none", state |-> "", id |-> "", context_id |-> ""]

\* variant: every item is taken for a (Task, Update) tuple
IsTupleAlways(item) == TRUE

\* isinstance(item, tuple)
IsTuple(item) == item.kind = "tuple"

\* an exception raised by the stream: runtime = it is a RuntimeError,
\* sai = "StopAsyncIteration" occurs in str(e)
Errors == [raised : {TRUE}, runtime : BOOLEAN, sai : BOOLEAN]
NoErr == [raised |-> FALSE, runtime |-> FALSE, sai |-> FALSE]

\* variant: the except clause re-raises whatever it catches
IsDisconnectNever(e) == FALSE

\* variant: every RuntimeError is taken for a disconnect
IsDisconnectAnyRuntime(e) == e.raised /\ e.runtime

\* except RuntimeError as e: if "StopAsyncIteration" in str(e)
IsDisconnect(e) == e.raised /\ e.runtime /\ e.sai

----------------------------------------------------------------------------
(* Frames of handle_message *)

NewFrame(msg) ==
    [message        |-> msg,
     response_count |-> 0,
     item           |-> NoItem,
     pc             |-> "iter",
     exc            |-> NoErr,
     follow_up      |-> <<>>]

Depth == Len(stack)

\* the coroutine that runs: the innermost call; its callers are suspended
Active == Depth

Top == stack[Active]

\* what happened since the last top-level line was read
NewConv ==
    [established |-> None, stable |-> TRUE, subs |-> 0, inputreq |-> 0,
     replied |-> FALSE, aborted |-> FALSE, items |-> 0]

----------------------------------------------------------------------------
(* Initial state: main has called run_main *)

Init ==
    /\ pc = "connect"
    /\ line = <<>>
    /\ query = <<>>
    /\ stack = <<>>
    /\ nqueries = 0
    /\ invoked = 0
    /\ conv = NewConv
    /\ console = "connecting"

----------------------------------------------------------------------------
(* run_main *)

\* client = await ClientFactory.connect(agent_url) succeeds
Connect ==
    /\ pc = "connect"
    /\ pc' = "read"
    /\ console' = "connected"
    /\ UNCHANGED <<line, query, stack, nqueries, invoked, conv>>

\* variant: the failure is reported and the loop is entered all the same
ConnectFailsEntersLoop ==
    /\ pc = "connect"
    /\ pc' = "read"
    /\ console' = "failed"
    /\ UNCHANGED <<line, query, stack, nqueries, invoked, conv>>

\* ClientFactory.connect raises: except Exception reports it
ConnectFails ==
    /\ pc = "connect"
    /\ pc' = "failed"
    /\ console' = "failed"
    /\ UNCHANGED <<line, query, stack, nqueries, invoked, conv>>

\* interactive_loop has returned: run_main returns
RunMainReturns ==
    /\ pc = "exited"
    /\ pc' = "done"
    /\ UNCHANGED <<line, query, stack, nqueries, invoked, conv, console>>

----------------------------------------------------------------------------
(* interactive_loop *)

\* query = input(...).strip()
ReadQuery(typed) ==
    /\ pc = "read"
    /\ nqueries < MaxQueries \/ IsExit(Strip(typed))
    /\ line' = typed
    /\ query' = Strip(typed)
    /\ pc' = "check"
    /\ nqueries' = IF nqueries < MaxQueries THEN nqueries + 1 ELSE nqueries
    /\ invoked' = 0
    /\ conv' = NewConv
    /\ UNCHANGED <<stack, console>>

\* if query.lower() in {"exit", "quit"}: print; break
ExitLoop ==
    /\ pc = "check"
    /\ IsExit(query)
    /\ pc' = "exited"
    /\ console' = "exiting"
    /\ UNCHANGED <<line, query, stack, nqueries, invoked, conv>>

\* await handle_message(client, query)
SubmitQuery ==
    /\ pc = "check"
    /\ ~IsExit(query)
    /\ pc' = "await"
    /\ stack' = <<NewFrame(build_message(query, None, None))>>
    /\ invoked' = invoked + 1
    /\ conv' = [conv EXCEPT !.subs = @ + 1]
    /\ UNCHANGED <<line, query, nqueries, console>>

----------------------------------------------------------------------------
(* handle_message: the steps of the innermost call *)

SetTop(f) == [stack EXCEPT ![Active] = f]

\* variant: the caller returns the result of the nested call instead of
\* going on with its own sequence (return await handle_message(...))
ReturnedTail ==
    IF Depth > 2
    THEN [SubSeq(stack, 1, Depth - 2) EXCEPT ![Depth - 2].pc = "iter"]
    ELSE <<>>

\* the stack after the innermost call has returned normally: the caller
\* goes on with its async for
Returned ==
    IF Depth > 1
    THEN [SubSeq(stack, 1, Depth - 1) EXCEPT ![Depth - 1].pc = "iter"]
    ELSE <<>>

\* the stack after the innermost call has raised e: the exception arrives
\* in the try of the caller, at await handle_message(...)
Raised(e) ==
    IF Depth > 1
    THEN [SubSeq(stack, 1, Depth - 1) EXCEPT ![Depth - 1].pc = "except",
                                             ![Depth - 1].exc = e]
    ELSE <<>>

\* the history of the conversation after item was consumed
Consumed(item) ==
    LET first == Depth = 1 /\ Top.response_count = 0
        est   == IF first /\ IsTuple(item)
                 THEN Some(<<item.id, item.context_id>>)
                 ELSE conv.established
    IN  [conv EXCEPT
           !.established = est,
           !.stable = @ /\ est # None
                        /\ (IsTuple(item) => est = Some(<<item.id, item.context_id>>)),
           !.inputreq = IF item.kind = "tuple" /\ item.state = "input-required"
                        THEN @ + 1 ELSE @,
           !.replied = @ \/ item.kind = "message",
           !.items = @ + 1]

\* async for item in client.send_message(message): the stream yields an
\* item; response_count += 1
NextItem(item) ==
    /\ Depth > 0
    /\ Top.pc = "iter"
    /\ conv.items < MaxItems
    /\ (item.kind = "tuple" /\ item.state = "input-required")
          => conv.inputreq < MaxTurns
    /\ stack' = SetTop([Top EXCEPT !.response_count = @ + 1,
                                   !.item = item,
                                   !.pc = "handle"])
    /\ conv' = Consumed(item)
    /\ UNCHANGED <<pc, line, query, nqueries, invoked, console>>

\* if isinstance(item, tuple): render; if task.status.state ==
\* TaskState.input_required: go on to the prompt
HandleTuple ==
    /\ Depth > 0
    /\ Top.pc = "handle"
    /\ IsTuple(Top.item)
    /\ stack' = SetTop([Top EXCEPT !.pc = IF Top.item.state = input_required
                                          THEN "prompt" ELSE "iter"])
    /\ console' = "Streaming Update"
    /\ UNCHANGED <<pc, line, query, nqueries, invoked, conv>>

\* variant: the call returns as soon as it has printed a Message reply
HandleReplyReturns ==
    /\ Depth > 0
    /\ Top.pc = "handle"
    /\ ~IsTuple(Top.item)
    /\ stack' = IF Depth > 1
                THEN [SubSeq(stack, 1, Depth - 1) EXCEPT ![Depth - 1].pc = "iter"]
                ELSE <<>>
    /\ pc' = IF Depth = 1 THEN "read" ELSE pc
    /\ console' = "Agent Reply"
    /\ UNCHANGED <<line, query, nqueries, invoked, conv>>

\* else: print_json_response(item, "Agent Reply")
HandleReply ==
    /\ Depth > 0
    /\ Top.pc = "handle"
    /\ ~IsTuple(Top.item)
    /\ stack' = SetTop([Top EXCEPT !.pc = "iter"])
    /\ console' = "Agent Reply"
    /\ UNCHANGED <<pc, line, query, nqueries, invoked, conv>>

\* follow_up = input("Agent needs more input. Your reply: ")
Prompt(typed) ==
    /\ Depth > 0
    /\ Top.pc = "prompt"
    /\ stack' = SetTop([Top EXCEPT !.follow_up = typed, !.pc = "call"])
    /\ UNCHANGED <<pc, line, query, nqueries, invoked, conv, console>>

\* variant: the follow-up takes the place of the call that asked for it
\* (a loop over the conversation instead of a recursive call)
FollowUpInPlace ==
    /\ Depth > 0
    /\ Top.pc = "call"
    /\ stack' = SetTop(NewFrame(build_message(Top.follow_up,
                                              Some(Top.item.id),
                                              Some(Top.item.context_id))))
    /\ conv' = [conv EXCEPT !.subs = @ + 1]
    /\ UNCHANGED <<pc, line, query, nqueries, invoked, console>>

\* await handle_message(client, follow_up, task.id, task.context_id)
FollowUp ==
    /\ Depth > 0
    /\ Top.pc = "call"
    /\ stack' = Append(SetTop([Top EXCEPT !.pc = "wait"]),
                       NewFrame(build_message(Top.follow_up,
                                              Some(Top.item.id),
                                              Some(Top.item.context_id))))
    /\ conv' = [conv EXCEPT !.subs = @ + 1]
    /\ UNCHANGED <<pc, line, query, nqueries, invoked, console>>

\* variant: the count is never found to be zero
NoResponseNever(count) == count < 0

\* if response_count == 0
NoResponse(count) == count = 0

\* the stream ends: if response_count == 0: print "No response received";
\* the call returns
Exhausted ==
    /\ Depth > 0
    /\ Top.pc = "iter"
    /\ console' = IF NoResponse(Top.response_count) THEN "noresponse" ELSE console
    /\ stack' = Returned
    /\ pc' = IF Depth = 1 THEN "read" ELSE pc
    /\ UNCHANGED <<line, query, nqueries, invoked, conv>>

\* the stream raises e instead of yielding the next item
StreamRaises(e) ==
    /\ Depth > 0
    /\ Top.pc = "iter"
    /\ stack' = SetTop([Top EXCEPT !.exc = e, !.pc = "except"])
    /\ UNCHANGED <<pc, line, query, nqueries, invoked, conv, console>>

\* except RuntimeError as e with "StopAsyncIteration" in str(e): print the
\* warning; the call returns
ExceptDisconnect ==
    /\ Depth > 0
    /\ Top.pc = "except"
    /\ IsDisconnect(Top.exc)
    /\ console' = "warning"
    /\ stack' = Returned
    /\ pc' = IF Depth = 1 THEN "read" ELSE pc
    /\ UNCHANGED <<line, query, nqueries, invoked, conv>>

\* variant: interactive_loop catches what leaves the outermost call,
\* reports it and reads the next query
ExceptPropagateLoopGoesOn ==
    /\ Depth > 0
    /\ Top.pc = "except"
    /\ ~IsDisconnect(Top.exc)
    /\ stack' = Raised(Top.exc)
    /\ pc' = IF Depth = 1 THEN "read" ELSE pc
    /\ console' = IF Depth = 1 THEN "failed" ELSE console
    /\ conv' = [conv EXCEPT !.aborted = TRUE]
    /\ UNCHANGED <<line, query, nqueries, invoked>>

\* any other exception leaves handle_message (raise e, or no except clause
\* matches); out of the outermost call it passes through interactive_loop
\* to the except Exception of run_main
ExceptPropagate ==
    /\ Depth > 0
    /\ Top.pc = "except"
    /\ ~IsDisconnect(Top.exc)
    /\ stack' = Raised(Top.exc)
    /\ pc' = IF Depth = 1 THEN "failed" ELSE pc
    /\ console' = IF Depth = 1 THEN "failed" ELSE console
    /\ conv' = [conv EXCEPT !.aborted = TRUE]
    /\ UNCHANGED <<line, query, nqueries, invoked>>

----------------------------------------------------------------------------
Next ==
    \/ Connect
    \/ ConnectFails
    \/ RunMainReturns
    \/ \E typed \in QueryLines : ReadQuery(typed)
    \/ ExitLoop
    \/ SubmitQuery
    \/ \E item \in Items : NextItem(item)
    \/ HandleTuple
    \/ HandleReply
    \/ \E typed \in FollowUpLines : Prompt(typed)
    \/ FollowUp
    \/ Exhausted
    \/ \E e \in Errors : StreamRaises(e)
    \/ ExceptDisconnect
    \/ ExceptPropagate

Spec == Init /\ [][Next]_vars

----------------------------------------------------------------------------
(* Properties of interactive_loop *)

\* the lines of QueryLines that are an exit keyword once trimmed and
\* compared case-insensitively, written out
ExitTyped ==
    { <<"e","x","i","t">>,
      <<"E","X","I","T">>,
      <<" ","Q","u","i","t"," ">> }

\* C1: for every entered line that is not an exit keyword (trimmed,
\* case-insensitive), the empty line included, handle_message is invoked
\* exactly once for that line before the next top-level line is read: the
\* line does not end the loop, the call is made once, and the loop is back
\* at its prompt only after that one call.
C1_OncePerLine ==
    /\ invoked \in {0, 1}
    /\ (nqueries > 0 /\ line \notin ExitTyped) =>
          /\ pc \notin {"exited", "done"}
          /\ pc = "check" => invoked = 0
          /\ pc \in {"await", "read", "failed"} => invoked = 1
          /\ pc = "await" => Depth >= 1 /\ stack[1].message.text = query

\* the empty line has been submitted once and the loop is at its prompt again
C1_Witness ==
    /\ pc = "read"
    /\ nqueries > 0
    /\ line = <<>>
    /\ invoked = 1

\* an exit line has been entered: nothing was invoked for it
ExitLineNotSubmitted ==
    (nqueries > 0 /\ line \in ExitTyped) =>
        /\ pc \in {"check", "exited", "done"}
        /\ invoked = 0
        /\ stack = <<>>

\* a step of the loop on an exit line, and any step after the loop ended
ExitLineStep ==
    /\ (pc = "check" /\ line \in ExitTyped) => pc' = "exited"
    /\ pc \in {"exited", "done"} =>
          /\ pc' \in {"exited", "done"}
          /\ UNCHANGED <<line, query, stack, nqueries, invoked, conv>>

\* C2: when the entered line is "exit" or "quit" in any case, the loop
\* terminates without invoking handle_message for that line, and no further
\* line is read.
C2_ExitTerminates == []ExitLineNotSubmitted /\ [][ExitLineStep]_vars

\* the loop has ended on the line EXIT
C2_Witness ==
    /\ pc = "exited"
    /\ line = <<"E","X","I","T">>
    /\ console = "exiting"

----------------------------------------------------------------------------
(* Properties of handle_message: follow-up submissions *)

\* the frame whose input-required item caused the call of frame i
Parent(i) == stack[i - 1]

\* frame i was called for an input-required item and carries the ids of
\* the task of that item
CarriesIdsOfItem(i) ==
    /\ IsTuple(Parent(i).item)
    /\ Parent(i).item.state = "input-required"
    /\ stack[i].message.taskId = Some(Parent(i).item.id)
    /\ stack[i].message.contextId = Some(Parent(i).item.context_id)

\* C3: for every (Task, Update) item whose task state is input-required,
\* handle_message reads exactly one more operator line and issues exactly
\* one recursive submission, and that submission carries the task id and
\* the context id of the task in the item.
C3_OneFollowUpWithIds ==
    /\ conv.subs = 0 => conv.inputreq = 0
    /\ conv.subs > 0 => conv.inputreq \in {conv.subs - 1, conv.subs}
    /\ (conv.subs > 0 /\ conv.inputreq = conv.subs) =>
          /\ Depth > 0
          /\ Top.pc \in {"handle", "prompt", "call"}
          /\ IsTuple(Top.item) /\ Top.item.state = "input-required"
    /\ \A i \in 2..Depth :
          /\ Parent(i).pc = "wait"
          /\ stack[i].message.text = Parent(i).follow_up
          /\ CarriesIdsOfItem(i)

\* C4: once a task/context identifier pair is established by the first
\* response to a new top-level message, every follow-up message of that
\* conversation, at any nesting depth, carries that pair.  Stated for the
\* conversations in which the agent itself keeps to the established pair
\* in every item.
C4_SamePairThroughout ==
    (conv.stable /\ conv.established # None) =>
        \A i \in 2..Depth :
            <<stack[i].message.taskId, stack[i].message.contextId>>
                = <<Some(conv.established[1][1]), Some(conv.established[1][2])>>

\* C5: build_message yields absent task and context identifiers for a
\* brand-new conversation (the call of interactive_loop), and for a
\* follow-up (the recursive call) both identifiers non-null and equal to
\* the task_id and context_id supplied, for every supplied pair.
C5_BuildMessageIds ==
    \A i \in 1..Depth :
        IF i = 1
        THEN /\ stack[i].message.taskId = None
             /\ stack[i].message.contextId = None
        ELSE /\ stack[i].message.taskId # None
             /\ stack[i].message.contextId # None
             /\ stack[i].message.taskId = Some(Parent(i).item.id)
             /\ stack[i].message.contextId = Some(Parent(i).item.context_id)

----------------------------------------------------------------------------
(* Properties of handle_message: nesting *)

\* every call but the innermost is suspended at its await
CallersSuspended == \A i \in 1..(Depth - 1) : stack[i].pc = "wait"

\* a step seen from a call that has a nested call: it is left untouched as
\* long as the nested call lasts, and when the nested call ends it is still
\* there, at the same position of its sequence, and goes on from there
SuspendedStep ==
    \A i \in 1..(Depth - 1) :
        /\ Len(stack') >= i
        /\ Len(stack') > i => stack'[i] = stack[i]
        /\ Len(stack') = i =>
              /\ stack'[i].response_count = stack[i].response_count
              /\ stack'[i].item = stack[i].item
              /\ stack'[i].message = stack[i].message
              /\ stack'[i].pc \in {"iter", "except"}

\* C6: no two submissions are in flight concurrently: after a nested
\* submission is issued the outer drain loop consumes no further item of its
\* own sequence until the nested submission, with the submissions nested in
\* it, has been fully drained; then it continues with the rest of its
\* sequence.
C6_NestedDrainedFirst == []CallersSuspended /\ [][SuspendedStep]_vars

\* a call nested in a nested call has returned and the middle call, which
\* had consumed one item, takes the next item of its own sequence
C6_Witness ==
    /\ Depth = 2
    /\ stack[1].pc = "wait"
    /\ stack[2].pc = "handle"
    /\ stack[2].response_count = 2
    /\ conv.subs = 3

----------------------------------------------------------------------------
(* Properties of handle_message: errors *)

\* the disconnect error: a RuntimeError whose text has "StopAsyncIteration"
DisconnectError == [raised |-> TRUE, runtime |-> TRUE, sai |-> TRUE]

\* the step of the outermost call in which the disconnect error was raised
TopLevelDisconnectStep ==
    (Depth = 1 /\ Top.pc = "except" /\ Top.exc = DisconnectError) =>
        /\ console' = "warning"
        /\ stack' = <<>>
        /\ pc' = "read"
        /\ ~conv'.aborted

\* C7: when draining the response sequence of a top-level submission raises
\* the disconnect error, handle_message prints a warning, raises nothing to
\* its caller, and interactive_loop goes on to read the next query.
C7_DisconnectRecovered == [][TopLevelDisconnectStep]_vars

\* the warning was printed for a query that had no follow-up, and the loop
\* is at its prompt
C7_Witness ==
    /\ pc = "read"
    /\ console = "warning"
    /\ conv.subs = 1
    /\ stack = <<>>

\* the step of a call in which an error other than the disconnect error
\* was raised or has arrived from its nested call: the call ends, the error
\* arrives unchanged in the caller, which has consumed nothing more, and
\* nothing is submitted
FatalStep ==
    (Depth > 0 /\ Top.pc = "except" /\ Top.exc.raised
               /\ ~(Top.exc.runtime /\ Top.exc.sai)) =>
        /\ Len(stack') = Depth - 1
        /\ conv'.subs = conv.subs
        /\ conv'.inputreq = conv.inputreq
        /\ IF Depth = 1
           THEN pc' = "failed"
           ELSE /\ stack'[Depth - 1].pc = "except"
                /\ stack'[Depth - 1].exc = Top.exc
                /\ stack'[Depth - 1].response_count
                     = stack[Depth - 1].response_count
                /\ \A j \in 1..(Depth - 2) : stack'[j] = stack[j]

\* once run_main has reported the error, nothing happens any more
NoStepAfterReport == pc # "failed"

\* C8: an error other than the disconnect error raised while draining, at
\* any nesting depth, is not recovered: it propagates through every
\* enclosing handle_message to the caller of the outermost one, and after it
\* is raised no further item of an enclosing sequence is consumed and no
\* further prompt or submission is made in that conversation.
C8_OtherErrorPropagates == [][FatalStep /\ NoStepAfterReport]_vars

\* an error raised after two follow-ups has left the outermost call
C8_Witness ==
    /\ pc = "failed"
    /\ stack = <<>>
    /\ conv.aborted
    /\ conv.subs = 3

\* a call that has consumed nothing is the innermost one and has neither
\* prompted nor submitted
NothingBeforeFirstItem ==
    \A i \in 1..Depth :
        stack[i].response_count = 0 =>
            i = Depth /\ stack[i].pc \in {"iter", "except"}

\* the step in which a sequence ends normally before any item
EmptySequenceStep ==
    (Depth > 0 /\ Top.pc = "iter" /\ Top.response_count = 0
               /\ Len(stack') < Depth) =>
        /\ console' = "noresponse"
        /\ conv' = conv
        /\ Len(stack') = Depth - 1
        /\ IF Depth = 1 THEN pc' = "read" ELSE stack'[Depth - 1].pc = "iter"

\* C9: when the response sequence has zero items and ends normally,
\* handle_message reports "no response", raises no error, and makes no
\* operator prompt and no recursive submission.
C9_NoResponseReported == []NothingBeforeFirstItem /\ [][EmptySequenceStep]_vars

\* "no response" was reported for a top-level query and the loop is at its
\* prompt
C9_Witness ==
    /\ pc = "read"
    /\ console = "noresponse"
    /\ conv.subs = 1
    /\ conv.inputreq = 0
    /\ stack = <<>>

\* the step that handles a Message item
ReplyStep ==
    (Depth > 0 /\ Top.pc = "handle" /\ Top.item.kind = "message") =>
        /\ console' = "Agent Reply"
        /\ stack' = [stack EXCEPT ![Depth].pc = "iter"]
        /\ conv' = conv

\* the outermost sequence was one Message item: one submission in all
SingleReply ==
    (Depth = 1 /\ Top.response_count = 1 /\ Top.item.kind = "message") =>
        conv.subs = 1

\* C10: a terminal Message item is rendered as a final reply and triggers
\* no operator prompt and no recursive submission; a sequence of one
\* terminal Message item results in exactly one submission in total.
C10_ReplyIsFinal == []SingleReply /\ [][ReplyStep]_vars

\* the sequence of one Message item has ended and the loop is at its prompt
C10_Witness ==
    /\ pc = "read"
    /\ console = "Agent Reply"
    /\ conv.subs = 1
    /\ stack = <<>>

----------------------------------------------------------------------------
(* Properties across top-level queries *)

\* C11: every submission issued directly by interactive_loop carries no
\* task id and no context id, whatever happened in earlier queries:
\* identifiers of a previous conversation are never attached to a later
\* top-level query.
C11_TopLevelWithoutIds ==
    Depth >= 1 =>
        /\ stack[1].message.taskId = None
        /\ stack[1].message.contextId = None
        /\ stack[1].message.text = query

\* the second query has just been submitted; the conversation before it
\* had received task updates, the last thing printed
C11_Witness ==
    /\ nqueries = 2
    /\ pc = "await"
    /\ Depth = 1
    /\ stack[1].response_count = 0
    /\ stack[1].pc = "iter"
    /\ console = "Streaming Update"

----------------------------------------------------------------------------
(* The states of a conversation *)

\* C12 as stated: the conversation is DONE once a terminal Message item has
\* been observed: from then on it makes no further input-required prompt
\* and no further submission.
C12_ReplyEndsConversation ==
    conv.replied => (Depth = 0 \/ Top.pc \notin {"prompt", "call"})

\* the conversation is either being drained or over
DrainingOrDone ==
    /\ pc = "await" => Depth >= 1
    /\ (pc = "read" /\ nqueries > 0) => stack = <<>> /\ ~conv.aborted

\* a step of a conversation: a Message item leaves the call draining, an
\* input-required item is prompted for whether or not a Message was seen,
\* the conversation is over only when the outermost call leaves its
\* sequence, and what follows is a new conversation
ConversationStep ==
    /\ (Depth > 0 /\ Top.pc = "handle" /\ Top.item.kind = "message") =>
          stack' = [stack EXCEPT ![Depth].pc = "iter"]
    /\ (Depth > 0 /\ Top.pc = "handle" /\ Top.item.kind = "tuple"
                  /\ Top.item.state = "input-required") =>
          stack' = [stack EXCEPT ![Depth].pc = "prompt"]
    /\ (pc = "await" /\ pc' = "read") =>
          /\ Depth = 1
          /\ Top.pc \in {"iter", "except"}
          /\ stack' = <<>>
          /\ conv' = conv
    /\ (pc = "read" /\ nqueries > 0) =>
          /\ pc' = "check"
          /\ stack' = <<>>
          /\ conv' = NewConv

\* C12, amended: DONE is final and is entered when the outermost call
\* leaves its sequence; a terminal Message item does not enter it: the
\* drain goes on and a later input-required item is still prompted for.
C12_DoneWhenDrained == []DrainingOrDone /\ [][ConversationStep]_vars

\* the first item of the outermost sequence was a Message, the second is
\* input-required and the operator is being prompted
C12_Witness ==
    /\ Depth = 1
    /\ Top.pc = "prompt"
    /\ Top.response_count = 2
    /\ conv.replied
    /\ conv.inputreq = 1

----------------------------------------------------------------------------
(* Properties of run_main *)

\* a reported failure ends the process; when it was the connection that
\* failed, no line was read and nothing was submitted
FailureReported ==
    /\ console = "failed" => pc = "failed"
    /\ pc = "failed" => console = "failed" /\ stack = <<>>
    /\ (pc = "failed" /\ nqueries = 0) =>
          /\ line = <<>>
          /\ invoked = 0
          /\ conv = NewConv

\* the step taken at the connection, and no step after a reported failure
ConnectStep ==
    /\ pc = "connect" =>
          /\ pc' \in {"read", "failed"}
          /\ pc' = "read" => console' = "connected"
          /\ UNCHANGED <<line, query, stack, nqueries, invoked, conv>>
    /\ pc # "failed"

\* C13: if connecting to the agent fails at startup, the failure is
\* reported and the process ends without entering the interactive loop: no
\* operator line is read and no message is submitted.
C13_ConnectFailureEnds == []FailureReported /\ [][ConnectStep]_vars

\* the connection has failed and the failure is reported
C13_Witness ==
    /\ pc = "failed"
    /\ console = "failed"
    /\ nqueries = 0
    /\ stack = <<>>

----------------------------------------------------------------------------
(* Termination of a conversation *)

\* the steps of handle_message when no sequence raises anything but the
\* disconnect error
Drain ==
    \/ \E item \in Items : NextItem(item)
    \/ HandleTuple
    \/ HandleReply
    \/ \E typed \in FollowUpLines : Prompt(typed)
    \/ FollowUp
    \/ Exhausted
    \/ StreamRaises([raised |-> TRUE, runtime |-> TRUE, sai |-> TRUE])
    \/ ExceptDisconnect

LiveNext ==
    \/ Connect
    \/ ConnectFails
    \/ RunMainReturns
    \/ \E typed \in QueryLines : ReadQuery(typed)
    \/ ExitLoop
    \/ SubmitQuery
    \/ Drain

\* every response sequence is finite (MaxItems), the agent asks for input
\* finitely often (MaxTurns), and the stream, the operator at the follow-up
\* prompt and the coroutine itself each take their next step
LiveSpec == Init /\ [][LiveNext]_vars /\ WF_vars(Drain)

----------------------------------------------------------------------------
(* Depth of the recursion *)

\* the sequences of the enclosing calls are open: each is held at the
\* input-required item it was answering
EnclosingOpen ==
    \A i \in 1..(Depth - 1) :
        /\ stack[i].pc = "wait"
        /\ stack[i].item.kind = "tuple"
        /\ stack[i].item.state = "input-required"

\* all the items of the conversation were input-required, one per
\* sequence, and the last follow-up has just been submitted: the depth is
\* the number of those turns plus one
ChainDepth ==
    ( /\ Depth >= 1
      /\ Top.response_count = 0
      /\ Top.pc = "iter"
      /\ conv.items = conv.inputreq
      /\ \A i \in 1..(Depth - 1) : stack[i].response_count = 1 )
    => Depth = conv.inputreq + 1

\* the step that submits a follow-up adds a call and ends none
NestingStep ==
    (Depth > 0 /\ Top.pc = "call") =>
        /\ Len(stack') = Depth + 1
        /\ \A i \in 1..Depth :
              /\ stack'[i].response_count = stack[i].response_count
              /\ stack'[i].item = stack[i].item
              /\ stack'[i].pc = "wait"

\* C15: the nesting depth of handle_message is not bounded by the driver:
\* when the response sequence of each follow-up itself yields an
\* input-required item, every such turn adds one more nested call while the
\* enclosing sequences stay open and undrained, so N consecutive
\* input-required turns reach depth N + 1 (checked for N up to MaxTurns).
C15_DepthGrowsWithTurns ==
    []EnclosingOpen /\ []ChainDepth /\ [][NestingStep]_vars

\* MaxTurns consecutive input-required turns: depth MaxTurns + 1
C15_Witness ==
    /\ Depth = MaxTurns + 1
    /\ conv.inputreq = MaxTurns
    /\ \A i \in 1..(Depth - 1) :
          stack[i].response_count = 1 /\ stack[i].pc = "wait"
    /\ Top.response_count = 0

----------------------------------------------------------------------------
(* Number of submissions *)

\* an input-required item has been consumed and its follow-up is not yet
\* submitted
FollowUpPending ==
    /\ Depth > 0
    /\ Top.pc \in {"handle", "prompt", "call"}
    /\ Top.item.kind = "tuple"
    /\ Top.item.state = "input-required"

\* C16: for each top-level query that completes without a non-disconnect
\* error, the number of submissions is one plus the number of (Task, Update)
\* items in input-required state consumed at all depths; a task that stays
\* input-required over several items of one sequence causes one follow-up
\* per item.  The count is right whenever no follow-up is pending, at
\* completion in particular.
C16_SubmissionsCount ==
    /\ (conv.subs >= 1 /\ ~FollowUpPending) => conv.subs = 1 + conv.inputreq
    /\ (pc = "read" /\ nqueries > 0) => conv.subs = 1 + conv.inputreq

\* the outermost sequence has yielded two input-required items in a row
\* and the second follow-up is being drained
C16_Witness ==
    /\ Depth = 2
    /\ stack[1].response_count = 2
    /\ stack[1].pc = "wait"
    /\ conv.items = 2
    /\ conv.inputreq = 2
    /\ conv.subs = 3

----------------------------------------------------------------------------
(* Errors that leave the outermost call, disconnects of nested calls *)

\* an error has ended the session: it is reported and nothing is left
SessionEnded ==
    (pc = "failed" /\ nqueries > 0) =>
        /\ console = "failed"
        /\ stack = <<>>
        /\ conv.aborted

\* the step in which an error other than the disconnect error leaves the
\* outermost call, and no step after the report
SessionEndStep ==
    /\ (Depth = 1 /\ Top.pc = "except" /\ Top.exc.raised
                  /\ ~(Top.exc.runtime /\ Top.exc.sai)) =>
          /\ pc' = "failed"
          /\ console' = "failed"
          /\ stack' = <<>>
          /\ conv'.subs = conv.subs
          /\ UNCHANGED <<line, query, nqueries, invoked>>
    /\ pc # "failed"

\* C17: a non-disconnect error that propagates out of the top-level
\* handle_message ends the session: interactive_loop does not catch it,
\* run_main reports it, and no further operator line is read and no further
\* message is submitted in that process.
C17_FatalErrorEndsSession == []SessionEnded /\ [][SessionEndStep]_vars

\* the sequence of the second query raised and run_main has reported it
C17_Witness ==
    /\ pc = "failed"
    /\ nqueries = 2
    /\ conv.aborted
    /\ conv.subs = 1
    /\ console = "failed"

\* the step in which a nested call has caught the disconnect error: the
\* warning is printed, the call ends, and its caller, otherwise unchanged
\* and with no error, goes on with its own sequence
NestedDisconnectStep ==
    (Depth > 1 /\ Top.pc = "except"
               /\ Top.exc = [raised |-> TRUE, runtime |-> TRUE, sai |-> TRUE]) =>
        /\ console' = "warning"
        /\ Len(stack') = Depth - 1
        /\ stack'[Depth - 1] = [stack[Depth - 1] EXCEPT !.pc = "iter"]
        /\ stack'[Depth - 1].exc = NoErr
        /\ \A j \in 1..(Depth - 2) : stack'[j] = stack[j]
        /\ pc' = pc
        /\ conv' = conv

\* a caller that has gone on after a nested call prompts again for a later
\* input-required item
PromptsAgainStep ==
    (Depth > 0 /\ Top.pc = "handle" /\ Top.response_count > 1
               /\ Top.item.kind = "tuple" /\ Top.item.state = "input-required") =>
        stack' = [stack EXCEPT ![Depth].pc = "prompt"]

\* C18: a disconnect error raised while draining a nested submission is
\* absorbed by that nested handle_message only: the enclosing drain
\* receives no error and goes on consuming the rest of its own sequence,
\* prompting again if a later item is input-required.
C18_NestedDisconnectAbsorbed ==
    [][NestedDisconnectStep /\ PromptsAgainStep]_vars

\* the follow-up of the first item was cut by a disconnect and the
\* outermost call is back at its own sequence
C18_Witness ==
    /\ Depth = 1
    /\ Top.pc = "iter"
    /\ Top.response_count = 1
    /\ Top.exc = NoErr
    /\ console = "warning"
    /\ conv.subs = 2
    /\ ~conv.aborted

----------------------------------------------------------------------------
(* The follow-up prompt *)

\* every follow-up in progress carries the line as typed, and the loop is
\* still awaiting the outermost call
FollowUpAsTyped ==
    \A i \in 2..Depth :
        /\ Parent(i).follow_up \in FollowUpLines
        /\ stack[i].message.text = Parent(i).follow_up
        /\ pc = "await"

\* the steps at the follow-up prompt: the line is read, then submitted,
\* whatever it is
FollowUpPromptStep ==
    /\ (Depth > 0 /\ Top.pc = "prompt") =>
          /\ Len(stack') = Depth
          /\ stack'[Depth].pc = "call"
          /\ stack'[Depth].follow_up \in FollowUpLines
          /\ pc' = "await"
    /\ (Depth > 0 /\ Top.pc = "call") =>
          /\ Len(stack') = Depth + 1
          /\ stack'[Depth + 1].message.text = Top.follow_up
          /\ stack'[Depth + 1].pc = "iter"
          /\ pc' = "await"
          /\ conv'.subs = conv.subs + 1

\* C19: a line read at the input-required follow-up prompt is always
\* submitted as a follow-up message, unmodified and without comparison
\* against the exit keywords: "exit" entered there neither terminates the
\* loop nor skips the submission.
C19_FollowUpNotAnExit == []FollowUpAsTyped /\ [][FollowUpPromptStep]_vars

\* " exit" was typed at the follow-up prompt and is being sent as it is
C19_Witness ==
    /\ Depth = 2
    /\ pc = "await"
    /\ stack[1].follow_up = <<" ","e","x","i","t">>
    /\ stack[2].message.text = <<" ","e","x","i","t">>
    /\ stack[2].pc = "iter"

====
